---- MODULE Spec2Model ----
(***************************************************************************)
(* Denoising diffusion notebook (notebooks/35_denoising_diffusion.ipynb):  *)
(* the noise schedules, the forward corruption of a training batch, its    *)
(* inverse, and the reverse sampling loop.                                 *)
(*                                                                         *)
(* Numbers.  The notebook computes in floating point.  Here a real number  *)
(* x is the integer round(x * Scale): every product, quotient and square   *)
(* root rounds to the nearest multiple of 1/Scale, as a floating-point     *)
(* operation rounds to the nearest representable value.  Arrays keep the   *)
(* source's 0-based indices: an array of n entries is a function on        *)
(* 0..n-1.  A tensor of shape [batch, pixels] is a function from sample    *)
(* index to a function from pixel index to a number.                       *)
(***************************************************************************)
EXTENDS Integers, Sequences, FiniteSets, TLC

\* ------------------------------------------------------------- bounds

\* Largest number of diffusion steps T explored (the notebook sets T = 4000).
\* At this resolution the cosine schedule's alpha_cumprod[T] is resolved (is
\* at least one unit) for T up to 6.
MaxT == 3
\* Samples per batch (the notebook uses 32).
batch_size == 2
\* Pixels per sample (the notebook's images are 28 x 28 x 1).
NPix == 2
\* Largest embed_size given to TimeEncoding (the notebook uses 64).
MaxEmbed == 6

\* --------------------------------------------------------- arithmetic

\* Resolution of the number representation: 1.0 is Scale.
Scale == 10000
One == Scale

Abs(a) == IF a < 0 THEN 0 - a ELSE a
Min(a, b) == IF a < b THEN a ELSE b
Max(a, b) == IF a > b THEN a ELSE b

\* a / b for integers, b > 0, rounded to the nearest integer.
RDiv(a, b) == (a + (b \div 2)) \div b

\* A floating-point division by zero does not raise: x / 0 is an infinity of
\* x's sign and 0 / 0 is nan, which every later operation hands on.
Infinity == 2^30
NaN == Infinity + 1

\* x + y, x - y, x * y, x / y and x ** 0.5 on represented numbers.
\* An infinity stays one under +, - and *, except that inf - inf and inf * 0
\* are nan.
IsInf(x) == x = Infinity \/ x = 0 - Infinity
Add(x, y) ==
    IF x = NaN \/ y = NaN THEN NaN
    ELSE IF IsInf(x) THEN (IF IsInf(y) /\ y # x THEN NaN ELSE x)
    ELSE IF IsInf(y) THEN y
    ELSE x + y
Sub(x, y) == IF y = NaN THEN NaN ELSE Add(x, 0 - y)
Mul(x, y) ==
    IF x = NaN \/ y = NaN THEN NaN
    ELSE IF IsInf(x) \/ IsInf(y)
         THEN (IF x = 0 \/ y = 0 THEN NaN
               ELSE IF (x < 0) # (y < 0) THEN 0 - Infinity ELSE Infinity)
    ELSE RDiv(x * y, Scale)
Div(x, y) ==
    IF x = NaN \/ y = NaN THEN NaN
    ELSE IF y = 0 THEN (IF x = 0 THEN NaN ELSE IF x < 0 THEN 0 - Infinity ELSE Infinity)
    ELSE RDiv(x * Scale, y)

RECURSIVE SqrtSearch(_, _, _)
SqrtSearch(n, lo, hi) ==
    IF lo >= hi THEN lo
    ELSE LET mid == (lo + hi + 1) \div 2
         IN  IF mid * mid <= n THEN SqrtSearch(n, mid, hi)
             ELSE SqrtSearch(n, lo, mid - 1)

\* floor(sqrt(n)) for 0 <= n < 2^31.
ISqrt(n) == SqrtSearch(n, 0, 46340)

\* x ** 0.5 for 0 <= x <= 5.0, rounded to nearest.
Sqrt(x) == (ISqrt(4 * x * Scale) + 1) \div 2

\* np.pi / 2
HalfPi == 15708

\* np.cos(x) by its Taylor series in Horner form, terms up to x^14.
RECURSIVE CosTail(_, _)
CosTail(x2, k) ==
    IF k > 7 THEN One
    ELSE One - RDiv(Mul(x2, CosTail(x2, k + 1)), (2 * k - 1) * (2 * k))

Cos(x) == IF x = NaN THEN NaN ELSE CosTail(Mul(x, x), 1)

\* ---------------------------------------------------- finer arithmetic

\* The same operations at a resolution of 1e-8, for the values that the
\* resolution above cannot tell apart: the schedule for T = 4000, whose
\* neighbouring entries differ by 1e-5 and less, and the frequencies of the
\* time encoding.  1.0 is Fine; a product is formed from the operands' halves
\* of FineBase each so that no intermediate value leaves 32 bits.
Fine == 100000000
FineBase == 10000
FineDigits == 8

\* x * y for 0 <= x, y, rounded to nearest.
FineMulAbs(x, y) ==
    LET xh == x \div FineBase
        xl == x % FineBase
        yh == y \div FineBase
        yl == y % FineBase
        mid == xh * yl + xl * yh
    IN  xh * yh + (mid \div FineBase)
        + (((mid % FineBase) * FineBase + xl * yl + (Fine \div 2)) \div Fine)

FineMul(x, y) ==
    IF (x < 0) # (y < 0) THEN 0 - FineMulAbs(Abs(x), Abs(y))
    ELSE FineMulAbs(Abs(x), Abs(y))

\* Long division: n more decimal digits of the quotient q, r the remainder.
RECURSIVE FineDivDigits(_, _, _, _)
FineDivDigits(q, r, y, n) ==
    IF n = 0 THEN q + (IF 2 * r >= y THEN 1 ELSE 0)
    ELSE FineDivDigits(q * 10 + ((r * 10) \div y), (r * 10) % y, y, n - 1)

\* x / y for 0 <= x and 0 <= y <= 2.1, rounded to nearest.  The operands may
\* also be two plain integers, as in t / T.
FineDiv(x, y) ==
    IF y = 0 THEN (IF x = 0 THEN NaN ELSE Infinity)
    ELSE FineDivDigits(x \div y, x % y, y, FineDigits)

\* np.pi / 2
FineHalfPi == 157079633

\* np.cos(x) for 0 <= x <= pi / 2 by its Taylor series in Horner form, terms
\* up to x^20.
RECURSIVE FineCosTail(_, _)
FineCosTail(x2, k) ==
    IF k > 10 THEN Fine
    ELSE Fine - FineMul(x2, FineCosTail(x2, k + 1)) \div ((2 * k - 1) * (2 * k))

FineCosQuadrant(x) == FineCosTail(FineMul(x, x), 1)

\* np.cos(x) and np.sin(x) for any x >= 0, reduced to the first quadrant.
RECURSIVE FineCos(_)
FineCos(x) ==
    IF x >= 4 * FineHalfPi THEN FineCos(x - 4 * FineHalfPi)
    ELSE IF x <= FineHalfPi THEN FineCosQuadrant(x)
    ELSE IF x <= 2 * FineHalfPi THEN 0 - FineCosQuadrant(2 * FineHalfPi - x)
    ELSE IF x <= 3 * FineHalfPi THEN 0 - FineCosQuadrant(x - 2 * FineHalfPi)
    ELSE FineCosQuadrant(4 * FineHalfPi - x)

FineSin(x) == FineCos(Abs(x - FineHalfPi))

\* np.log(10_000)
FineLn10000 == 921034037

\* np.exp(-y) for 0 <= y <= 1 by its Taylor series in Horner form, terms up
\* to y^14, and for larger y as the product of the values at the halves of y.
RECURSIVE FineExpTail(_, _)
FineExpTail(y, k) ==
    IF k > 14 THEN Fine
    ELSE Fine - FineMul(y, FineExpTail(y, k + 1)) \div k

RECURSIVE FineExpNeg(_)
FineExpNeg(y) ==
    IF y > Fine THEN FineMul(FineExpNeg(y \div 2), FineExpNeg(y - (y \div 2)))
    ELSE FineExpTail(y, 1)

\* astype(np.float32): to the resolution of the stored arrays.
Coarse(x) ==
    IF x = NaN THEN NaN
    ELSE IF x < 0 THEN 0 - RDiv(0 - x, Fine \div Scale)
    ELSE RDiv(x, Fine \div Scale)

\* ------------------------------------------------------------- arrays

Size(a) == Cardinality(DOMAIN a)
Empty == [i \in {} |-> 0]

\* np.arange(n)
Arange(n) == [i \in 0..(n - 1) |-> i]

\* np.clip(x, lo, hi) of one number: minimum(maximum(x, lo), hi); nan stays nan.
ClipLowerDropped(x, lo, hi) == IF x = NaN THEN NaN ELSE Min(x, hi)
Clip(x, lo, hi) == IF x = NaN THEN NaN ELSE Min(Max(x, lo), hi)

\* np.append(v, a): v in front of the array a
Append1Repeat(v, a) == [i \in 0..Size(a) |-> IF i = 0 THEN a[0] ELSE a[i - 1]]
Append1(v, a) == [i \in 0..Size(a) |-> IF i = 0 THEN v ELSE a[i - 1]]

\* np.cumprod(a)
RECURSIVE CumSum(_)
CumSum(a) ==
    IF Size(a) <= 1 THEN a
    ELSE LET n == Size(a)
             head == CumSum([i \in 0..(n - 2) |-> a[i]])
         IN  [i \in 0..(n - 1) |-> IF i < n - 1 THEN head[i]
                                   ELSE head[n - 2] + a[n - 1]]
CumProdPairwise(a) ==
    [i \in DOMAIN a |-> IF i = 0 THEN a[0] ELSE Mul(a[i - 1], a[i])]
RECURSIVE CumProd(_)
CumProd(a) ==
    IF Size(a) <= 1 THEN a
    ELSE LET n == Size(a)
             head == CumProd([i \in 0..(n - 2) |-> a[i]])
         IN  [i \in 0..(n - 1) |-> IF i < n - 1 THEN head[i]
                                   ELSE Mul(head[n - 2], a[n - 1])]

\* ---------------------------------------------------------- schedules

\* step_scale = 0.005 in linear_schedule
step_scale == 50

\* variance_schedule(T, s, max_beta): the cosine policy.
variance_schedule(T_, s_, max_beta_) ==
    LET tt == Arange(T_ + 1)
        f == [i \in DOMAIN tt |->
                LET c == Cos(Mul(Div(Add(Div(tt[i] * Scale, T_ * Scale), s_),
                                     One + s_), HalfPi))
                IN  Mul(c, c)]
        ratio == [i \in 0..(T_ - 1) |-> Div(f[i + 1], f[i])]
        a0 == [i \in DOMAIN ratio |-> Clip(ratio[i], One - max_beta_, One)]
        a == Append1(One, a0)
    IN  [alpha |-> a,
         alpha_cumprod |-> CumProd(a),
         beta |-> [i \in DOMAIN a |-> Sub(One, a[i])]]

\* linear_schedule(T, s, max_beta): the linear policy.
linear_schedule(T_, s_, max_beta_) ==
    LET tt == Arange(T_ + 1)
        f == [i \in DOMAIN tt |->
                Sub(One, Div(step_scale * tt[i], T_ * Scale))]
        a0 == [i \in DOMAIN f |-> Clip(f[i], One - max_beta_, One)]
        a == Append1(One, a0)
    IN  [alpha |-> a,
         alpha_cumprod |-> CumProd(a),
         beta |-> [i \in DOMAIN a |-> Sub(One, a[i])]]

\* The notebook's own call, variance_schedule(T) with T = 4000 and the default
\* s = 0.008 and max_beta = 0.999, entry by entry at the finer resolution.
DefaultT == 4000
DefaultS == 80
DefaultMaxBeta == 9990

\* A stored number at the finer resolution.
ToFine(x) == x * (Fine \div Scale)

\* f[t] = np.cos((t / T + s) / (1 + s) * np.pi / 2) ** 2
FinePolicy(t_, T_, s_) ==
    LET c == FineCos(FineMul(FineDiv(FineDiv(t_, T_) + ToFine(s_),
                                     Fine + ToFine(s_)), FineHalfPi))
    IN  FineMul(c, c)

\* One entry of np.clip(f[1:] / f[:-1], 1 - max_beta, 1)
PolicyAlphaInverted(f_prev, f_next, max_beta_) ==
    Clip(FineDiv(f_prev, f_next), Fine - ToFine(max_beta_), Fine)
PolicyAlpha(f_prev, f_next, max_beta_) ==
    Clip(FineDiv(f_next, f_prev), Fine - ToFine(max_beta_), Fine)

\* ------------------------------------------------------- TimeEncoding

\* np.meshgrid(xs, ys): two matrices with one row per y and one column per x.
Meshgrid(xs, ys) ==
    [p |-> [r \in DOMAIN ys |-> [c \in DOMAIN xs |-> xs[c]]],
     i |-> [r \in DOMAIN ys |-> [c \in DOMAIN xs |-> ys[r]]]]

\* M.T
Transpose(M) == [c \in DOMAIN M[0] |-> [r \in DOMAIN M |-> M[r][c]]]

\* np.empty((rows, cols)): the cells hold whatever the memory held.
NpEmpty(rows, cols, garbage) ==
    [r \in 0..(rows - 1) |-> [c \in 0..(cols - 1) |-> garbage]]

\* The columns that the slice [:, start::2] selects.
SliceColumnsNoStride(A, start) == {c \in DOMAIN A[0] : c >= start}
SliceColumns(A, start) == {c \in DOMAIN A[0] : c >= start /\ (c - start) % 2 = 0}

\* A[:, start::2] = V
SetColumns(A, start, V) ==
    [r \in DOMAIN A |-> [c \in DOMAIN A[r] |->
        IF c \in SliceColumns(A, start) THEN V[r][(c - start) \div 2]
        ELSE A[r][c]]]

\* The number of assignments each cell has received, after one more to the
\* slice [:, start::2].
CountColumns(W, start) ==
    [r \in DOMAIN W |-> [c \in DOMAIN W[r] |->
        IF c \in SliceColumns(W, start) THEN W[r][c] + 1 ELSE W[r][c]]]

\* p / 10_000 ** (i / embed_size), computed as p * exp(-(i / embed_size) *
\* log(10_000)) so that no intermediate value leaves 32 bits.
AngleFromOne(p, i, E) ==
    FineMul((p + 1) * Fine, FineExpNeg(FineMul(FineDiv(i, E), FineLn10000)))
Angle(p, i, E) ==
    FineMul(p * Fine, FineExpNeg(FineMul(FineDiv(i, E), FineLn10000)))

\* The body of TimeEncoding.__init__ after the assertion: the table, and with
\* it how often each of its cells was assigned.
TimeEncodingTable(T_, E, garbage) ==
    LET grid == Meshgrid(Arange(T_ + 1), [k \in 0..((E \div 2) - 1) |-> 2 * k])
        sines == [r \in DOMAIN grid.p |-> [c \in DOMAIN grid.p[r] |->
                    FineSin(Angle(grid.p[r][c], grid.i[r][c], E))]]
        cosines == [r \in DOMAIN grid.p |-> [c \in DOMAIN grid.p[r] |->
                    FineCos(Angle(grid.p[r][c], grid.i[r][c], E))]]
        e0 == NpEmpty(T_ + 1, E, garbage)
        e1 == SetColumns(e0, 0, Transpose(sines))
        e2 == SetColumns(e1, 1, Transpose(cosines))
        w0 == NpEmpty(T_ + 1, E, 0)
    IN  [time_encodings |-> [r \in DOMAIN e2 |-> [c \in DOMAIN e2[r] |->
                                Coarse(e2[r][c])]],
         writes |-> CountColumns(CountColumns(w0, 0), 1)]

\* ------------------------------------------------------------- state

VARIABLES
    pc,                  \* which cell of the notebook has run
    T, s, max_beta,      \* the schedule's parameters
    alpha, alpha_cumprod, beta,              \* variance_schedule(T)
    lin_alpha, lin_alpha_cumprod, lin_beta,  \* linear_schedule(T)
    X_dict, Y_noise,     \* the batch prepare_batch returned
    X_scaled,            \* prepare_batch's X after its scaling to -1..1
    X_original,          \* what subtract_noise returned
    sub_args,            \* the arguments of a direct call of subtract_noise
    X, t, noise, X_noise,  \* generate's locals
    iter,                \* how many values of range(T - 1, 0, -1) are consumed
    model_calls,         \* how often generate has called the model
    trace,               \* one record per completed iteration of generate
    X_gen,               \* what generate returned
    embed_size,          \* the embed_size given to TimeEncoding
    time_encodings,      \* the layer's table, once constructed
    writes,              \* how often each cell of the table was assigned
    te_inputs, te_outputs,  \* the argument and the result of the layer's call
    entry,               \* the entry of the default schedule computed last
    Z, skip,             \* build_diffusion_model's symbolic tensors
    cross_skips,         \* its list of skip connections
    block,               \* how many values of the current for loop are consumed
    pushed, popped,      \* every tensor appended to, popped from cross_skips
    merges,              \* the operands of every add and concatenate
    model_outputs,       \* the output tensor of the model it returns
    runs,                \* the state of each of two calls of generate
    tf_rng               \* TensorFlow's global seed and operation counter

sched_vars == <<T, s, max_beta, alpha, alpha_cumprod, beta,
                lin_alpha, lin_alpha_cumprod, lin_beta>>
batch_vars == <<X_dict, Y_noise, X_scaled, X_original, sub_args>>
gen_vars == <<X, t, noise, X_noise, iter, model_calls, trace, X_gen>>
enc_vars == <<embed_size, time_encodings, writes, te_inputs, te_outputs>>
net_vars == <<Z, skip, cross_skips, block, pushed, popped, merges,
              model_outputs>>
run_vars == <<runs, tf_rng>>
vars == <<pc, sched_vars, batch_vars, gen_vars, enc_vars, entry, net_vars,
          run_vars>>

\* ------------------------------------------------------------ tensors

Samples == 0..(batch_size - 1)
Pixels == 0..(NPix - 1)

\* tf.zeros(shape)
Zeros == [i \in Samples |-> [p \in Pixels |-> 0]]

\* A tensor whose entries run through the given levels.
Pattern(levels, k) ==
    [i \in Samples |-> [p \in Pixels |->
        levels[((i + 2 * p + k) % Len(levels)) + 1]]]

\* Batches of images with pixel values in [0, 1] (X_train is scaled by 1/255).
Images == {Pattern(<<0, 10000, 5000>>, k) : k \in 0..2}

\* Draws of tf.random.normal(shape): any tensor, the zero tensor included.
NormalTensors == {Zeros} \cup {Pattern(<<-12000, 5000, -3000, 9000>>, k) : k \in 0..2}

\* The shape of a tensor, and the element of a tensor at an index of a result
\* it is broadcast to: an axis of length 1 is read at 0 whatever the index.
Shape(A) == <<Size(A), Size(A[0])>>
Broadcastable(sa, sb) == \A d \in 1..2 : sa[d] = sb[d] \/ sa[d] = 1 \/ sb[d] = 1
BroadcastShape(sa, sb) == [d \in 1..2 |-> Max(sa[d], sb[d])]
At(A, i, p) == A[IF Size(A) = 1 THEN 0 ELSE i][IF Size(A[0]) = 1 THEN 0 ELSE p]

\* Outputs of the trained model: opaque, here any of these tensors.
ModelOutputs == {Zeros} \cup {Pattern(<<-8000, 6000, 2000>>, k) : k \in 0..1}

\* tf.random.uniform(shape, minval, maxval, dtype=tf.int32): minval inclusive,
\* maxval exclusive.
UniformInt(minval, maxval) == minval..(maxval - 1)

\* The time steps prepare_batch can draw for one sample.
TimeStepsAboveT == UniformInt(1, T + 2)
TimeSteps == UniformInt(1, T + 1)

\* tf.gather(params, indices) with one index per sample.
\* Where it raises nothing for an index outside params, it stores 0 for it.
GatherFirst(params, indices) == [i \in DOMAIN indices |-> params[indices[0]]]
Gather(params, indices) ==
    [i \in DOMAIN indices |->
        IF indices[i] \in DOMAIN params THEN params[indices[i]] ELSE 0]

InBounds(params, indices) == \A i \in DOMAIN indices : indices[i] \in DOMAIN params

\* --------------------------------------- prepare_batch, subtract_noise

\* prepare_batch(X) with its two random draws t and noise made explicit.
prepare_batch(X0, t0, noise0) ==
    LET Xs == [i \in Samples |-> [p \in Pixels |-> X0[i][p] * 2 - One]]
        alpha_cm == Gather(alpha_cumprod, t0)
    IN  [X |-> Xs,
         X_noisy |-> [i \in Samples |-> [p \in Pixels |->
                        Mul(Sqrt(alpha_cm[i]), Xs[i][p])
                        + Mul(Sqrt(One - alpha_cm[i]), noise0[i][p])]],
         time |-> t0,
         noise |-> noise0]

subtract_noise_added(X_noisy, time, noise0) ==
    LET alpha_cm == Gather(alpha_cumprod, time)
    IN  [i \in Samples |-> [p \in Pixels |->
            Div(X_noisy[i][p] + Mul(Sqrt(One - alpha_cm[i]), noise0[i][p]),
                Sqrt(alpha_cm[i]))]]
subtract_noise(X_noisy, time, noise0) ==
    LET alpha_cm == Gather(alpha_cumprod, time)
    IN  [i \in Samples |-> [p \in Pixels |->
            Div(X_noisy[i][p] - Mul(Sqrt(One - alpha_cm[i]), noise0[i][p]),
                Sqrt(alpha_cm[i]))]]

\* ----------------------------------------------------------- generate

\* range(start, stop, -1) as the sequence of the values it yields.
Range(start, stop) == [k \in 1..Max(start - stop, 0) |-> start - (k - 1)]

\* The loop header of generate: range(T - 1, 0, -1).
TimeRangeSkipsOne == Range(T - 1, 1)
TimeRangeToZero == Range(T - 1, 0 - 1)
TimeRange == Range(T - 1, 0)

\* (tf.random.normal if t > 1 else tf.zeros)
NoiseSourceAlwaysNormal(t0) == "normal"
NoiseSource(t0) == IF t0 > 1 THEN "normal" ELSE "zeros"

NoiseChoices(t0) == IF NoiseSource(t0) = "normal" THEN NormalTensors ELSE {Zeros}

\* The assignment to X in the loop body.
reverse_update_alpha(X0, t0, X_noise0, noise0) ==
    LET c1 == Div(One, Sqrt(alpha[t0]))
        c2 == Div(beta[t0], Sqrt(One - alpha[t0]))
        c3 == Sqrt(One - alpha[t0])
    IN  [i \in Samples |-> [p \in Pixels |->
            Mul(c1, X0[i][p] - Mul(c2, X_noise0[i][p])) + Mul(c3, noise0[i][p])]]
reverse_update_no_sqrt(X0, t0, X_noise0, noise0) ==
    LET c1 == Div(One, alpha[t0])
        c2 == Div(beta[t0], Sqrt(One - alpha_cumprod[t0]))
        c3 == Sqrt(One - alpha[t0])
    IN  [i \in Samples |-> [p \in Pixels |->
            Mul(c1, X0[i][p] - Mul(c2, X_noise0[i][p])) + Mul(c3, noise0[i][p])]]
reverse_update_carry(X0, t0, X_noise0, noise0) ==
    LET c1 == Div(One, Sqrt(alpha[t0]))
        c2 == Div(beta[t0], Sqrt(One - alpha_cumprod[t0]))
        c3 == Sqrt(One - alpha[t0])
    IN  [i \in Samples |-> [p \in Pixels |->
            Mul(c1, X0[i][p] - Mul(c2, X_noise0[i][p])) + Mul(c3, noise0[i][p])
            - (IF X_noise = Empty THEN 0 ELSE X_noise[i][p] \div 2)]]
\* The operands are broadcast against each other as TensorFlow does.
reverse_update(X0, t0, X_noise0, noise0) ==
    LET c1 == Div(One, Sqrt(alpha[t0]))
        c2 == Div(beta[t0], Sqrt(One - alpha_cumprod[t0]))
        c3 == Sqrt(One - alpha[t0])
        sh == BroadcastShape(Shape(X0), Shape(X_noise0))
    IN  [i \in 0..(sh[1] - 1) |-> [p \in 0..(sh[2] - 1) |->
            Add(Mul(c1, Sub(At(X0, i, p), Mul(c2, At(X_noise0, i, p)))),
                Mul(c3, At(noise0, i, p)))]]

\* ----------------------------------------------- build_diffusion_model

\* A symbolic Keras tensor: its height, width and channels (the batch axis is
\* left out) and, as its identity, the layer call that produced it.
NoTensor == [h |-> 0, w |-> 0, c |-> 0, id |-> <<>>]
KerasInput(h, w, c, id) == [h |-> h, w |-> w, c |-> c, id |-> id]

\* The output length of a convolution or pooling window along one axis.
CeilDiv(n, d) == (n + d - 1) \div d
ConvSize(n, k, strides, padding) ==
    IF padding = "same" THEN CeilDiv(n, strides)
    ELSE IF n < k THEN 0 ELSE ((n - k) \div strides) + 1

ZeroPadding2D(pad, x, id) ==
    [h |-> x.h + 2 * pad, w |-> x.w + 2 * pad, c |-> x.c, id |-> id]
Conv2D(filters, k, strides, padding, x, id) ==
    [h |-> ConvSize(x.h, k, strides, padding),
     w |-> ConvSize(x.w, k, strides, padding),
     c |-> filters, id |-> id]
SeparableConv2D(filters, k, padding, x, id) ==
    Conv2D(filters, k, 1, padding, x, id)
\* With strides 1 a transposed convolution keeps the size when padding is
\* "same" and adds k - 1 when it is "valid".
Conv2DTranspose(filters, k, padding, x, id) ==
    [h |-> IF padding = "same" THEN x.h ELSE x.h + k - 1,
     w |-> IF padding = "same" THEN x.w ELSE x.w + k - 1,
     c |-> filters, id |-> id]
BatchNormalization(x, id) == [x EXCEPT !.id = id]
Activation(x, id) == [x EXCEPT !.id = id]
MaxPooling2DValid(pool, strides, padding, x, id) ==
    [h |-> ConvSize(x.h, pool, strides, "valid"),
     w |-> ConvSize(x.w, pool, strides, "valid"),
     c |-> x.c, id |-> id]
MaxPooling2D(pool, strides, padding, x, id) ==
    [h |-> ConvSize(x.h, pool, strides, padding),
     w |-> ConvSize(x.w, pool, strides, padding),
     c |-> x.c, id |-> id]
UpSampling2D(size, x, id) ==
    [h |-> x.h * size, w |-> x.w * size, c |-> x.c, id |-> id]

\* Dense(units)(time_enc): one vector of units entries per sample.
Dense(units) == units

\* time[:, tf.newaxis, tf.newaxis, :] + Z, broadcast as TensorFlow does: the
\* time vector has height 1 and width 1.
TimeAddable(time, x) == time = x.c \/ time = 1 \/ x.c = 1
AddTime(time, x, id) == [h |-> x.h, w |-> x.w, c |-> Max(time, x.c), id |-> id]

\* tf.keras.layers.add: the shapes agree on every axis, an axis of length 1
\* being stretched.
AxisAddable(m, n) == m = n \/ m = 1 \/ n = 1
Addable(a, b) ==
    AxisAddable(a.h, b.h) /\ AxisAddable(a.w, b.w) /\ AxisAddable(a.c, b.c)
KerasAdd(a, b, id) ==
    [h |-> Max(a.h, b.h), w |-> Max(a.w, b.w), c |-> Max(a.c, b.c), id |-> id]

\* tf.keras.layers.concatenate(axis=-1): every other axis agrees exactly.
Concatenable(a, b) == a.h = b.h /\ a.w = b.w
Concatenate(a, b, id) == [h |-> a.h, w |-> a.w, c |-> a.c + b.c, id |-> id]

\* x[:, lo:-hi, lo:-hi]
Crop(lo, hi, x, id) ==
    [h |-> Max(x.h - hi - lo, 0), w |-> Max(x.w - hi - lo, 0),
     c |-> x.c, id |-> id]

\* list.pop() and list.append(x) on a Python list held as a sequence.
ListPopFirst(l) == [value |-> l[1], rest |-> SubSeq(l, 2, Len(l))]
ListPop(l) == [value |-> l[Len(l)], rest |-> SubSeq(l, 1, Len(l) - 1)]
ListAppend(l, x) == Append(l, x)

\* The filters of the down blocks and of the up blocks.
DownDims == <<32, 64, 128>>
UpDims == <<64, 32, 16>>

InitNet ==
    /\ Z = NoTensor /\ skip = NoTensor /\ model_outputs = NoTensor
    /\ cross_skips = <<>> /\ block = 0
    /\ pushed = <<>> /\ popped = <<>> /\ merges = <<>>

\* ------------------------------------------------ two calls of generate

\* Two callers, each of which sets TensorFlow's global seed and then calls
\* generate (tf.random.set_seed(42); generate(model)), the second with the
\* next seed.
Runs == {1, 2}
Seeds == [r \in Runs |-> 41 + r]

\* tf.random.normal(shape) without a seed argument: the draw is a function
\* of the global seed and of the number of random operations run since the
\* seed was set, both kept in the one eager context of the process.
RandomNormal(seed, count) ==
    Pattern(<<-12000, 5000, -3000, 9000, 0, -7000, 14000>>, 3 * seed + count)

\* model([X, t]) in inference: a function of its inputs and nothing else.
Predictor(X0, t0) ==
    [i \in Samples |-> [p \in Pixels |->
        Clip(X0[i][p] \div (t0 + 1), 0 - 8000, 8000)]]

\* generate run from its k-th iteration on with nothing else drawing from
\* the global generator.
RECURSIVE GenerateFrom(_, _, _, _)
GenerateFrom(X0, k, seed, count) ==
    IF k > Len(TimeRange) THEN X0
    ELSE LET t0 == TimeRange[k]
             normal == NoiseSource(t0) = "normal"
             noise0 == IF normal THEN RandomNormal(seed, count) ELSE Zeros
         IN  GenerateFrom(reverse_update(X0, t0, Predictor(X0, t0), noise0),
                          k + 1, seed, IF normal THEN count + 1 ELSE count)
GenerateAlone(seed) == GenerateFrom(RandomNormal(seed, 0), 1, seed, 1)

InitRuns ==
    /\ runs = [r \in Runs |->
                 [pc |-> "new", X |-> Empty, iter |-> 0, X_gen |-> Empty]]
    /\ tf_rng = [seed |-> 0, count |-> 0]

\* ------------------------------------------------------------ actions

\* s: 0.008 (the default) and 0
SValues == {80, 0}
\* max_beta: 0.999 (the default) and 0.5
MaxBetaValues == {9990, 5000}

Init ==
    /\ pc = "start"
    /\ T \in 1..MaxT
    /\ s \in SValues
    /\ max_beta \in MaxBetaValues
    /\ alpha = Empty /\ alpha_cumprod = Empty /\ beta = Empty
    /\ lin_alpha = Empty /\ lin_alpha_cumprod = Empty /\ lin_beta = Empty
    /\ X_dict = [X_noisy |-> Empty, time |-> Empty]
    /\ Y_noise = Empty /\ X_scaled = Empty /\ X_original = Empty
    /\ sub_args = [X_noisy |-> Empty, time |-> Empty, noise |-> Empty]
    /\ X = Empty /\ t = 0 /\ noise = Empty /\ X_noise = Empty
    /\ iter = 0 /\ model_calls = 0 /\ trace = <<>> /\ X_gen = Empty
    /\ embed_size = 0 /\ time_encodings = Empty /\ writes = Empty
    /\ te_inputs = Empty /\ te_outputs = Empty
    /\ entry = [t |-> 0 - 1]
    /\ InitNet
    /\ InitRuns

\* Any caller of the schedule functions: T and max_beta are not restricted
\* to the values the notebook uses.
TValuesAny == (0 - 1)..MaxT
MaxBetaValuesAny == {0 - 5000, 0, 5000, 9990, 10000, 15000}

InitConfig ==
    /\ pc = "start"
    /\ T \in TValuesAny
    /\ s \in SValues
    /\ max_beta \in MaxBetaValuesAny
    /\ alpha = Empty /\ alpha_cumprod = Empty /\ beta = Empty
    /\ lin_alpha = Empty /\ lin_alpha_cumprod = Empty /\ lin_beta = Empty
    /\ X_dict = [X_noisy |-> Empty, time |-> Empty]
    /\ Y_noise = Empty /\ X_scaled = Empty /\ X_original = Empty
    /\ sub_args = [X_noisy |-> Empty, time |-> Empty, noise |-> Empty]
    /\ X = Empty /\ t = 0 /\ noise = Empty /\ X_noise = Empty
    /\ iter = 0 /\ model_calls = 0 /\ trace = <<>> /\ X_gen = Empty
    /\ embed_size = 0 /\ time_encodings = Empty /\ writes = Empty
    /\ te_inputs = Empty /\ te_outputs = Empty
    /\ entry = [t |-> 0 - 1]
    /\ InitNet
    /\ InitRuns

\* The cell that defines both policies and computes both schedules.
ScheduleCell ==
    /\ pc = "start"
    /\ LET c == variance_schedule(T, s, max_beta)
           l == linear_schedule(T, s, max_beta)
       IN  /\ alpha' = c.alpha
           /\ alpha_cumprod' = c.alpha_cumprod
           /\ beta' = c.beta
           /\ lin_alpha' = l.alpha
           /\ lin_alpha_cumprod' = l.alpha_cumprod
           /\ lin_beta' = l.beta
    /\ pc' = "ready"
    /\ UNCHANGED <<T, s, max_beta, batch_vars, gen_vars, enc_vars, entry, net_vars, run_vars>>

\* One batch through prepare_batch (train_set.take(1)).  A gather with an
\* index outside the array fails and returns nothing.
PrepareBatch ==
    /\ pc = "ready"
    /\ \E X0 \in Images, t0 \in [Samples -> TimeSteps], noise0 \in NormalTensors :
          IF InBounds(alpha_cumprod, t0)
          THEN LET r == prepare_batch(X0, t0, noise0)
               IN  /\ X_dict' = [X_noisy |-> r.X_noisy, time |-> r.time]
                   /\ Y_noise' = r.noise
                   /\ X_scaled' = r.X
                   /\ pc' = "batch"
          ELSE /\ pc' = "gather_error"
               /\ UNCHANGED <<X_dict, Y_noise, X_scaled>>
    /\ UNCHANGED <<sched_vars, X_original, sub_args, gen_vars, enc_vars, entry, net_vars, run_vars>>

\* X_original = subtract_noise(X_dict["X_noisy"], X_dict["time"], Y_noise)
SubtractNoiseInPlace ==
    /\ pc = "batch"
    /\ X_original' = subtract_noise(X_dict.X_noisy, X_dict.time, Y_noise)
    /\ alpha_cumprod' = [k \in DOMAIN alpha_cumprod |-> Sqrt(alpha_cumprod[k])]
    /\ pc' = "checked"
    /\ UNCHANGED <<T, s, max_beta, alpha, beta, lin_alpha, lin_alpha_cumprod,
                   lin_beta, X_dict, Y_noise, X_scaled, sub_args, gen_vars,
                   enc_vars, entry, net_vars, run_vars>>
SubtractNoise ==
    /\ pc = "batch"
    /\ X_original' = subtract_noise(X_dict.X_noisy, X_dict.time, Y_noise)
    /\ pc' = "checked"
    /\ UNCHANGED <<sched_vars, X_dict, Y_noise, X_scaled, sub_args, gen_vars,
                   enc_vars, entry, net_vars, run_vars>>

\* Where TensorFlow places an eager op: the notebook asks for a GPU runtime
\* and runs as well without one.
Devices == {"CPU", "GPU"}

\* The step indices a caller may pass: the schedule's and one beyond each end.
TimeStepsAny == (0 - 1)..(T + 1)

\* subtract_noise called directly with any time vector.  tf.gather raises on
\* an index outside the array when it runs on the CPU; on the GPU it raises
\* nothing and stores 0.
SubtractNoiseCall ==
    /\ pc = "ready"
    /\ \E Xn \in NormalTensors, time \in [Samples -> TimeStepsAny],
          noise0 \in NormalTensors, device \in Devices :
          /\ sub_args' = [X_noisy |-> Xn, time |-> time, noise |-> noise0]
          /\ IF InBounds(alpha_cumprod, time) \/ device = "GPU"
             THEN /\ X_original' = subtract_noise(Xn, time, noise0)
                  /\ pc' = "subtracted"
             ELSE /\ pc' = "subtract_error"
                  /\ UNCHANGED X_original
    /\ UNCHANGED <<sched_vars, X_dict, Y_noise, X_scaled, gen_vars, enc_vars, entry, net_vars, run_vars>>

\* generate: X = tf.random.normal([batch_size, 28, 28, 1])
GenStart ==
    /\ pc = "ready"
    /\ \E X0 \in NormalTensors : X' = X0
    /\ iter' = 0
    /\ model_calls' = 0
    /\ trace' = <<>>
    /\ pc' = "loop"
    /\ UNCHANGED <<sched_vars, batch_vars, t, noise, X_noise, X_gen, enc_vars, entry, net_vars, run_vars>>

\* tf.constant([t] * batch_size)
TimeConstantNext(t0) == [i \in Samples |-> t0 - 1]
TimeConstant(t0) == [i \in Samples |-> t0]

\* Predictions whose shape differs from X's: one sample for the whole batch,
\* one value per sample, and one pixel too many.
MismatchedOutputs ==
    { [i \in {0} |-> [p \in Pixels |-> 2000]],
      [i \in Samples |-> [p \in {0} |-> -8000]],
      [i \in Samples |-> [p \in 0..NPix |-> 6000]] }

\* generate: one iteration of the for loop, with a model that returns one of
\* the given outputs.  The update's arithmetic fails when the shapes cannot
\* be broadcast; nothing else compares them.
GenStepWith(outputs) ==
    /\ pc = "loop"
    /\ iter < Len(TimeRange)
    /\ LET t0 == TimeRange[iter + 1]
       IN  IF t0 \in DOMAIN alpha
           THEN \E noise0 \in NoiseChoices(t0), X_noise0 \in outputs :
                   IF Broadcastable(Shape(X), Shape(X_noise0))
                   THEN LET Xn == reverse_update(X, t0, X_noise0, noise0)
                        IN  /\ t' = t0
                            /\ noise' = noise0
                            /\ X_noise' = X_noise0
                            /\ X' = Xn
                            /\ trace' = Append(trace,
                                   [t |-> t0,
                                    X_in |-> X,
                                    model_X_noisy |-> X,
                                    model_time |-> TimeConstant(t0),
                                    noise_fn |-> NoiseSource(t0),
                                    noise |-> noise0,
                                    X_noise |-> X_noise0,
                                    X_out |-> Xn])
                            /\ iter' = iter + 1
                            /\ model_calls' = model_calls + 1
                            /\ pc' = "loop"
                   ELSE /\ t' = t0
                        /\ noise' = noise0
                        /\ X_noise' = X_noise0
                        /\ model_calls' = model_calls + 1
                        /\ pc' = "shape_error"
                        /\ UNCHANGED <<X, iter, trace>>
           ELSE /\ pc' = "index_error"
                /\ UNCHANGED <<X, t, noise, X_noise, iter, model_calls, trace>>
    /\ UNCHANGED <<sched_vars, batch_vars, X_gen, enc_vars, entry, net_vars, run_vars>>

\* The model is the trained network, whose output has X's shape.
GenStep == GenStepWith(ModelOutputs)

\* The model is any callable.
GenStepAny == GenStepWith(ModelOutputs \cup MismatchedOutputs)

\* generate: the range is exhausted, return X.
GenReturn ==
    /\ pc = "loop"
    /\ iter = Len(TimeRange)
    /\ X_gen' = X
    /\ pc' = "returned"
    /\ UNCHANGED <<sched_vars, batch_vars, X, t, noise, X_noise, iter,
                   model_calls, trace, enc_vars, entry, net_vars, run_vars>>

\* The embed sizes a caller may pass (the notebook passes 64).
EmbedSizes == 1..MaxEmbed

\* What np.empty may hold: anything, here zero or nan.
Garbage == {0, NaN}

\* assert embed_size % 2 == 0
MultipleOfFour(E) == E % 4 = 0
AssertEven(E) == E % 2 = 0

\* TimeEncoding(T, embed_size): the assertion, then the table.
TimeEncodingInit ==
    /\ pc = "ready"
    /\ \E E \in EmbedSizes, garbage \in Garbage :
          /\ embed_size' = E
          /\ IF AssertEven(E)
             THEN LET r == TimeEncodingTable(T, E, garbage)
                  IN  /\ time_encodings' = r.time_encodings
                      /\ writes' = r.writes
                      /\ pc' = "encoder"
             ELSE /\ pc' = "assertion_error"
                  /\ UNCHANGED <<time_encodings, writes>>
    /\ UNCHANGED <<sched_vars, batch_vars, gen_vars, te_inputs, te_outputs, entry, net_vars, run_vars>>

\* TimeEncoding.call(inputs) with one time step per sample.
TimeEncodingCall ==
    /\ pc = "encoder"
    /\ \E inputs \in [Samples -> 0..T] :
          /\ te_inputs' = inputs
          /\ te_outputs' = Gather(time_encodings, inputs)
    /\ pc' = "encoded"
    /\ UNCHANGED <<sched_vars, batch_vars, gen_vars, embed_size, time_encodings,
                   writes, entry, net_vars, run_vars>>

\* build_diffusion_model up to the first loop: the inputs, the padded and
\* convolved image with the time encoding added, the empty cross_skips.
\* The TimeEncoding layer it constructs first is TimeEncodingInit.
BuildStem ==
    /\ pc = "encoder"
    /\ LET X_in == KerasInput(28, 28, 1, <<"stem", 0, 0>>)
           Z1 == ZeroPadding2D(3, X_in, <<"stem", 0, 1>>)
           Z2 == Conv2D(16, 3, 1, "valid", Z1, <<"stem", 0, 2>>)
           Z3 == BatchNormalization(Z2, <<"stem", 0, 3>>)
           Z4 == Activation(Z3, <<"stem", 0, 4>>)
           tm == Dense(16)
       IN  IF TimeAddable(tm, Z4)
           THEN /\ Z' = AddTime(tm, Z4, <<"stem", 0, 5>>)
                /\ skip' = AddTime(tm, Z4, <<"stem", 0, 5>>)
                /\ pc' = "down"
           ELSE /\ pc' = "merge_error"
                /\ UNCHANGED <<Z, skip>>
    /\ cross_skips' = <<>>
    /\ block' = 0
    /\ UNCHANGED <<sched_vars, batch_vars, gen_vars, enc_vars, entry, pushed,
                   popped, merges, model_outputs, run_vars>>

\* One iteration of for dim in (32, 64, 128).
DownBlock ==
    /\ pc = "down"
    /\ block < Len(DownDims)
    /\ LET k == block + 1
           dim == DownDims[k]
           Z1 == Activation(Z, <<"down", k, 1>>)
           Z2 == SeparableConv2D(dim, 3, "same", Z1, <<"down", k, 2>>)
           Z3 == BatchNormalization(Z2, <<"down", k, 3>>)
           Z4 == Activation(Z3, <<"down", k, 4>>)
           Z5 == SeparableConv2D(dim, 3, "same", Z4, <<"down", k, 5>>)
           Z6 == BatchNormalization(Z5, <<"down", k, 6>>)
           Z7 == MaxPooling2D(3, 2, "same", Z6, <<"down", k, 7>>)
           skip_link == Conv2D(dim, 1, 2, "same", skip, <<"down", k, 8>>)
           Z8 == KerasAdd(Z7, skip_link, <<"down", k, 9>>)
           tm == Dense(dim)
       IN  /\ cross_skips' = ListAppend(cross_skips, Z6)
           /\ pushed' = Append(pushed, Z6)
           /\ merges' = Append(merges, [op |-> "add", a |-> Z7, b |-> skip_link])
           /\ IF Addable(Z7, skip_link) /\ TimeAddable(tm, Z8)
              THEN /\ Z' = AddTime(tm, Z8, <<"down", k, 10>>)
                   /\ skip' = AddTime(tm, Z8, <<"down", k, 10>>)
                   /\ block' = IF k = Len(DownDims) THEN 0 ELSE k
                   /\ pc' = IF k = Len(DownDims) THEN "up" ELSE "down"
              ELSE /\ pc' = "merge_error"
                   /\ UNCHANGED <<Z, skip, block>>
    /\ UNCHANGED <<sched_vars, batch_vars, gen_vars, enc_vars, entry, popped,
                   model_outputs, run_vars>>

\* One iteration of for dim in (64, 32, 16).
UpBlock ==
    /\ pc = "up"
    /\ block < Len(UpDims)
    /\ LET k == block + 1
           dim == UpDims[k]
           Z1 == Activation(Z, <<"up", k, 1>>)
           Z2 == Conv2DTranspose(dim, 3, "same", Z1, <<"up", k, 2>>)
           Z3 == BatchNormalization(Z2, <<"up", k, 3>>)
           Z4 == Activation(Z3, <<"up", k, 4>>)
           Z5 == Conv2DTranspose(dim, 3, "same", Z4, <<"up", k, 5>>)
           Z6 == BatchNormalization(Z5, <<"up", k, 6>>)
           Z7 == UpSampling2D(2, Z6, <<"up", k, 7>>)
           skip_up == UpSampling2D(2, skip, <<"up", k, 8>>)
           skip_link == Conv2D(dim, 1, 1, "same", skip_up, <<"up", k, 9>>)
           Z8 == KerasAdd(Z7, skip_link, <<"up", k, 10>>)
           tm == Dense(dim)
           Z9 == AddTime(tm, Z8, <<"up", k, 11>>)
           added == [op |-> "add", a |-> Z7, b |-> skip_link]
       IN  IF ~(Addable(Z7, skip_link) /\ TimeAddable(tm, Z8))
           THEN /\ merges' = Append(merges, added)
                /\ pc' = "merge_error"
                /\ UNCHANGED <<Z, skip, block, cross_skips, popped>>
           ELSE IF cross_skips = <<>>
           THEN /\ merges' = Append(merges, added)
                /\ pc' = "pop_error"
                /\ UNCHANGED <<Z, skip, block, cross_skips, popped>>
           ELSE LET top == ListPop(cross_skips)
                IN  /\ cross_skips' = top.rest
                    /\ popped' = Append(popped, top.value)
                    /\ merges' = merges \o
                          <<added,
                            [op |-> "concatenate", a |-> Z9, b |-> top.value]>>
                    /\ IF Concatenable(Z9, top.value)
                       THEN /\ Z' = Concatenate(Z9, top.value, <<"up", k, 12>>)
                            /\ skip' = Concatenate(Z9, top.value, <<"up", k, 12>>)
                            /\ block' = k
                            /\ pc' = "up"
                       ELSE /\ pc' = "merge_error"
                            /\ UNCHANGED <<Z, skip, block>>
    /\ UNCHANGED <<sched_vars, batch_vars, gen_vars, enc_vars, entry, pushed,
                   model_outputs, run_vars>>

\* The output convolution, the crop, and the model that is returned.
BuildReturn ==
    /\ pc = "up"
    /\ block = Len(UpDims)
    /\ model_outputs' = Crop(2, 2, Conv2D(1, 3, 1, "same", Z, <<"out", 0, 1>>),
                             <<"out", 0, 2>>)
    /\ pc' = "model"
    /\ UNCHANGED <<sched_vars, batch_vars, gen_vars, enc_vars, entry, Z, skip,
                   cross_skips, block, pushed, popped, merges, run_vars>>

Next ==
    \/ ScheduleCell
    \/ PrepareBatch
    \/ SubtractNoise
    \/ GenStart
    \/ GenStep
    \/ GenReturn
    \/ TimeEncodingInit
    \/ TimeEncodingCall
    \/ BuildStem
    \/ DownBlock
    \/ UpBlock
    \/ BuildReturn

Spec == Init /\ [][Next]_vars

\* variance_schedule(T) as the notebook calls it, one entry of alpha and of
\* np.cumprod(alpha) after the other.  Entry 0 is the prepended 1.
InitDefault ==
    /\ pc = "start"
    /\ T = DefaultT
    /\ s = DefaultS
    /\ max_beta = DefaultMaxBeta
    /\ alpha = Empty /\ alpha_cumprod = Empty /\ beta = Empty
    /\ lin_alpha = Empty /\ lin_alpha_cumprod = Empty /\ lin_beta = Empty
    /\ X_dict = [X_noisy |-> Empty, time |-> Empty]
    /\ Y_noise = Empty /\ X_scaled = Empty /\ X_original = Empty
    /\ sub_args = [X_noisy |-> Empty, time |-> Empty, noise |-> Empty]
    /\ X = Empty /\ t = 0 /\ noise = Empty /\ X_noise = Empty
    /\ iter = 0 /\ model_calls = 0 /\ trace = <<>> /\ X_gen = Empty
    /\ embed_size = 0 /\ time_encodings = Empty /\ writes = Empty
    /\ te_inputs = Empty /\ te_outputs = Empty
    /\ entry = [t |-> 0 - 1]
    /\ InitNet
    /\ InitRuns

EntryFirst ==
    /\ pc = "start"
    /\ entry' = [t |-> 0,
                 f |-> FinePolicy(0, T, s),
                 alpha |-> Fine,
                 beta |-> 0,
                 alpha_cumprod |-> Fine,
                 alpha_cumprod_before |-> Fine]
    /\ pc' = "entries"
    /\ UNCHANGED <<sched_vars, batch_vars, gen_vars, enc_vars, net_vars, run_vars>>

EntryNext ==
    /\ pc = "entries"
    /\ entry.t < T
    /\ LET f_next == FinePolicy(entry.t + 1, T, s)
           a == PolicyAlpha(entry.f, f_next, max_beta)
       IN  entry' = [t |-> entry.t + 1,
                     f |-> f_next,
                     alpha |-> a,
                     beta |-> Fine - a,
                     alpha_cumprod |-> FineMul(entry.alpha_cumprod, a),
                     alpha_cumprod_before |-> entry.alpha_cumprod]
    /\ UNCHANGED <<pc, sched_vars, batch_vars, gen_vars, enc_vars, net_vars,
                   run_vars>>

EntriesDone ==
    /\ pc = "entries"
    /\ entry.t = T
    /\ pc' = "ready"
    /\ UNCHANGED <<sched_vars, batch_vars, gen_vars, enc_vars, entry, net_vars, run_vars>>

NextDefault ==
    \/ EntryFirst
    \/ EntryNext
    \/ EntriesDone

SpecDefault == InitDefault /\ [][NextDefault]_vars

\* The schedule functions called with arbitrary parameters.
NextConfig == ScheduleCell

SpecConfig == InitConfig /\ [][NextConfig]_vars

\* subtract_noise called with arbitrary step indices.
NextGather ==
    \/ ScheduleCell
    \/ SubtractNoiseCall

SpecGather == Init /\ [][NextGather]_vars

\* generate called with an arbitrary callable as its model.
NextAnyModel ==
    \/ ScheduleCell
    \/ GenStart
    \/ GenStepAny
    \/ GenReturn

SpecAnyModel == Init /\ [][NextAnyModel]_vars

\* tf.random.set_seed(seed) by one of the callers.
RunSetSeed ==
    /\ pc = "ready"
    /\ \E r \in Runs :
          /\ runs[r].pc = "new"
          /\ tf_rng' = [seed |-> Seeds[r], count |-> 0]
          /\ runs' = [runs EXCEPT ![r].pc = "seeded"]
    /\ UNCHANGED <<pc, sched_vars, batch_vars, gen_vars, enc_vars, entry,
                   net_vars>>

\* generate: X = tf.random.normal([batch_size, 28, 28, 1])
RunStart ==
    /\ pc = "ready"
    /\ \E r \in Runs :
          /\ runs[r].pc = "seeded"
          /\ runs' = [runs EXCEPT ![r].pc = "loop",
                                  ![r].X = RandomNormal(tf_rng.seed, tf_rng.count),
                                  ![r].iter = 0]
          /\ tf_rng' = [tf_rng EXCEPT !.count = @ + 1]
    /\ UNCHANGED <<pc, sched_vars, batch_vars, gen_vars, enc_vars, entry,
                   net_vars>>

\* generate: one iteration of the for loop of one of the callers.
RunStep ==
    /\ pc = "ready"
    /\ \E r \in Runs :
          /\ runs[r].pc = "loop"
          /\ runs[r].iter < Len(TimeRange)
          /\ LET t0 == TimeRange[runs[r].iter + 1]
                 normal == NoiseSource(t0) = "normal"
                 noise0 == IF normal
                           THEN RandomNormal(tf_rng.seed, tf_rng.count)
                           ELSE Zeros
                 X_noise0 == Predictor(runs[r].X, t0)
             IN  /\ runs' = [runs EXCEPT
                       ![r].X = reverse_update(runs[r].X, t0, X_noise0, noise0),
                       ![r].iter = @ + 1]
                 /\ tf_rng' = IF normal
                              THEN [tf_rng EXCEPT !.count = @ + 1]
                              ELSE tf_rng
    /\ UNCHANGED <<pc, sched_vars, batch_vars, gen_vars, enc_vars, entry,
                   net_vars>>

\* generate: the range is exhausted, return X.
RunReturn ==
    /\ pc = "ready"
    /\ \E r \in Runs :
          /\ runs[r].pc = "loop"
          /\ runs[r].iter = Len(TimeRange)
          /\ runs' = [runs EXCEPT ![r].pc = "returned", ![r].X_gen = runs[r].X]
    /\ UNCHANGED <<pc, sched_vars, batch_vars, gen_vars, enc_vars, entry,
                   net_vars, tf_rng>>

\* Two callers of generate whose steps interleave.
NextTwoRuns ==
    \/ ScheduleCell
    \/ RunSetSeed
    \/ RunStart
    \/ RunStep
    \/ RunReturn

SpecTwoRuns == Init /\ [][NextTwoRuns]_vars

\* ------------------------------------------------------------- claims

Entries == 1..Len(trace)
HasBatch == pc \in {"batch", "checked"}
Scheduled == pc # "start"

\* C1: every completed iteration of generate's loop, at its step t, called the
\* model on the X that entered the iteration with the time vector [t, ..., t],
\* and replaced X by
\*   (1/sqrt(alpha[t])) * (X - beta[t]/sqrt(1 - alpha_bar[t]) * noise_pred)
\*     + sqrt(1 - alpha[t]) * z
\* with alpha, beta and alpha_bar all read at that same t; the X the loop holds
\* is the last iteration's result.
C1_UpdateRule ==
    /\ \A k \in Entries :
          LET e == trace[k]
              inv_sqrt_alpha == Div(One, Sqrt(alpha[e.t]))
              pred_coef == Div(beta[e.t], Sqrt(One - alpha_cumprod[e.t]))
              z_coef == Sqrt(One - alpha[e.t])
          IN  /\ e.model_X_noisy = e.X_in
              /\ e.model_time = [i \in Samples |-> e.t]
              /\ \A i \in Samples, p \in Pixels :
                    e.X_out[i][p] =
                        Mul(inv_sqrt_alpha,
                            e.X_in[i][p] - Mul(pred_coef, e.X_noise[i][p]))
                        + Mul(z_coef, e.noise[i][p])
    /\ (pc = "loop" /\ trace # <<>>) => X = trace[Len(trace)].X_out

\* A sampler has taken a step above t = 1 with a nonzero prediction and z.
C1_Witness ==
    /\ pc = "loop"
    /\ trace # <<>>
    /\ trace[1].t > 1
    /\ trace[1].X_noise # Zeros
    /\ trace[1].noise # Zeros
    /\ trace[1].X_out # trace[1].X_in

\* C2: the k-th iteration of generate runs at t = T - k, so the steps are
\* T-1, T-2, ..., 1 in descending order, each once and none below 1; each
\* iteration starts from the X the previous one produced; and for T >= 2
\* generate returns after exactly T - 1 iterations, the last at t = 1, with
\* the X that iteration produced.
C2_StepOrder ==
    /\ \A k \in Entries : trace[k].t = T - k /\ trace[k].t >= 1
    /\ \A k \in Entries : k > 1 => trace[k].X_in = trace[k - 1].X_out
    /\ (pc = "returned" /\ T >= 2) =>
          /\ Len(trace) = T - 1
          /\ trace[T - 1].t = 1
          /\ X_gen = trace[T - 1].X_out

\* generate has returned after at least two iterations.
C2_Witness ==
    /\ pc = "returned"
    /\ T >= 3
    /\ Len(trace) >= 2
    /\ trace[1].t = T - 1
    /\ X_gen # trace[1].X_in

\* C3: in every iteration of generate the re-injected noise comes from
\* tf.random.normal when t > 1 and from tf.zeros when t = 1, and only then; so
\* the step at t = 1 yields (1/sqrt(alpha[1])) * (X - beta[1]/sqrt(1 -
\* alpha_bar[1]) * noise_pred), a function of X and the prediction alone.
C3_NoiseOnlyAboveOne ==
    \A k \in Entries :
        LET e == trace[k]
        IN  /\ e.noise_fn = (IF e.t = 1 THEN "zeros" ELSE "normal")
            /\ e.t > 1 => e.noise \in NormalTensors
            /\ e.t = 1 =>
                  /\ e.noise = Zeros
                  /\ \A i \in Samples, p \in Pixels :
                        e.X_out[i][p] =
                            Mul(Div(One, Sqrt(alpha[1])),
                                e.X_in[i][p]
                                - Mul(Div(beta[1], Sqrt(One - alpha_cumprod[1])),
                                      e.X_noise[i][p]))

\* A run with a noisy step followed by the noiseless last step.
C3_Witness ==
    /\ pc = "returned"
    /\ Len(trace) >= 2
    /\ trace[1].noise_fn = "normal"
    /\ trace[1].noise # Zeros
    /\ trace[Len(trace)].t = 1
    /\ trace[Len(trace)].noise = Zeros

\* C4: in the batch prepare_batch returns, every sample i has
\*   X_noisy[i] = sqrt(alpha_bar[time[i]]) * X[i]
\*                + sqrt(1 - alpha_bar[time[i]]) * noise[i]
\* at each of its pixels, where X is the batch scaled to -1..1 and time and
\* noise are the ones returned with it.
C4_ForwardCorruption ==
    HasBatch =>
        \A i \in Samples, p \in Pixels :
            X_dict.X_noisy[i][p] =
                Mul(Sqrt(alpha_cumprod[X_dict.time[i]]), X_scaled[i][p])
                + Mul(Sqrt(One - alpha_cumprod[X_dict.time[i]]), Y_noise[i][p])

\* A batch whose first two samples were corrupted at different steps.
C4_Witness ==
    /\ pc = "batch"
    /\ X_dict.time[0] # X_dict.time[1]
    /\ alpha_cumprod[X_dict.time[0]] # alpha_cumprod[X_dict.time[1]]
    /\ X_dict.X_noisy # X_scaled

\* C5: prepare_batch never fails on its gather, and every step it returns is
\* in 1..T and an index of alpha_cumprod.
C5_TimeStepsInRange ==
    /\ pc # "gather_error"
    /\ HasBatch =>
          \A i \in Samples :
              /\ X_dict.time[i] \in 1..T
              /\ X_dict.time[i] \in DOMAIN alpha_cumprod

\* A batch in which step T and step 1 were both drawn.
C5_Witness ==
    /\ pc = "batch"
    /\ T >= 2
    /\ \E i, j \in Samples : X_dict.time[i] = T /\ X_dict.time[j] = 1

\* C6: alpha_bar[t] > 0 for every t in 1..T, and subtract_noise applied to a
\* batch of prepare_batch with its time and noise returns the scaled X: at a
\* sample corrupted at step t every pixel differs from X by at most one
\* rounding unit divided by sqrt(alpha_bar[t]).
C6_RoundTrip ==
    /\ Scheduled => \A k \in 1..T : alpha_cumprod[k] > 0
    /\ pc = "checked" =>
          \A i \in Samples, p \in Pixels :
              Abs(X_original[i][p] - X_scaled[i][p])
                  * Sqrt(alpha_cumprod[X_dict.time[i]]) <= Scale

\* A round trip through step T with noise added and removed.
C6_Witness ==
    /\ pc = "checked"
    /\ T >= 2
    /\ \E i \in Samples :
          /\ X_dict.time[i] = T
          /\ X_dict.X_noisy[i] # X_scaled[i]
          /\ X_original[i] = X_scaled[i]

\* C7: under both policies alpha, alpha_bar and beta each have exactly T + 1
\* entries, indexed 0..T.
C7_SchedulesHaveTPlus1Entries ==
    Scheduled =>
        /\ DOMAIN alpha = 0..T
        /\ DOMAIN alpha_cumprod = 0..T
        /\ DOMAIN beta = 0..T
        /\ DOMAIN lin_alpha = 0..T
        /\ DOMAIN lin_alpha_cumprod = 0..T
        /\ DOMAIN lin_beta = 0..T

\* C8: under the linear policy alpha[t] = clip(1 - step_scale * t / T,
\* 1 - max_beta, 1) and beta[t] = 1 - alpha[t] for every t in 1..T.
C8_LinearAlphaFormula ==
    Scheduled =>
        \A k \in 1..T :
            /\ lin_alpha[k] = Clip(One - RDiv(step_scale * k, T),
                                   One - max_beta, One)
            /\ lin_beta[k] = One - lin_alpha[k]

\* C9: at every index of either policy's schedule, alpha is in
\* [1 - max_beta, 1], beta = 1 - alpha, and beta is in [0, max_beta].
C9_AlphaBetaRange ==
    Scheduled =>
        /\ \A k \in DOMAIN alpha :
              /\ One - max_beta <= alpha[k] /\ alpha[k] <= One
              /\ beta[k] = One - alpha[k]
              /\ 0 <= beta[k] /\ beta[k] <= max_beta
        /\ \A k \in DOMAIN lin_alpha :
              /\ One - max_beta <= lin_alpha[k] /\ lin_alpha[k] <= One
              /\ lin_beta[k] = One - lin_alpha[k]
              /\ 0 <= lin_beta[k] /\ lin_beta[k] <= max_beta

\* The cosine schedule's last step was clipped to 1 - max_beta, and the linear
\* schedule injects noise.
C9_Witness ==
    /\ pc = "ready"
    /\ T >= 2
    /\ alpha[T] = One - max_beta
    /\ beta[T] = max_beta
    /\ alpha[1] < One
    /\ \E k \in DOMAIN lin_beta : lin_beta[k] > 0

\* C10: under both policies alpha_bar never increases with t and every entry
\* is in (0, 1].
C10_AlphaBarMonotone ==
    Scheduled =>
        /\ \A k \in DOMAIN alpha_cumprod :
              /\ 0 < alpha_cumprod[k] /\ alpha_cumprod[k] <= One
              /\ k >= 1 => alpha_cumprod[k] <= alpha_cumprod[k - 1]
        /\ \A k \in DOMAIN lin_alpha_cumprod :
              /\ 0 < lin_alpha_cumprod[k] /\ lin_alpha_cumprod[k] <= One
              /\ k >= 1 => lin_alpha_cumprod[k] <= lin_alpha_cumprod[k - 1]

\* Both schedules have decayed below 1 by their last step.
C10_Witness ==
    /\ pc = "ready"
    /\ T >= 2
    /\ alpha_cumprod[T] < alpha_cumprod[1]
    /\ alpha_cumprod[1] < One
    /\ lin_alpha_cumprod[T] < One

\* C11: in both schedules alpha_cumprod is the running product of alpha:
\* alpha_cumprod[0] = alpha[0] and alpha_cumprod[k] = alpha_cumprod[k-1] *
\* alpha[k] for every later index k of the returned arrays.
RunningProduct(a, acp) ==
    /\ DOMAIN acp = DOMAIN a
    /\ acp[0] = a[0]
    /\ \A k \in DOMAIN a : k >= 1 => acp[k] = Mul(acp[k - 1], a[k])

C11_RunningProduct ==
    Scheduled =>
        /\ RunningProduct(alpha, alpha_cumprod)
        /\ RunningProduct(lin_alpha, lin_alpha_cumprod)

\* Both schedules computed with at least three factors below 1 in the cosine
\* one, so that the running product differs from any product of fewer terms.
C11_Witness ==
    /\ Scheduled
    /\ T >= 3
    /\ \A k \in 1..3 : alpha[k] < One
    /\ alpha_cumprod[3] < Mul(alpha[2], alpha[3])
    /\ lin_alpha_cumprod[T + 1] < lin_alpha[T + 1]

\* C12: in both schedules step 0 is the identity anchor: alpha[0] = 1,
\* beta[0] = 0, alpha_cumprod[0] = 1; alpha[0] is the prepended 1 and the
\* policy's values follow it from index 1 on.
C12_IdentityAnchor ==
    Scheduled =>
        /\ alpha[0] = One /\ beta[0] = 0 /\ alpha_cumprod[0] = One
        /\ lin_alpha[0] = One /\ lin_beta[0] = 0 /\ lin_alpha_cumprod[0] = One

\* A cosine schedule whose first policy value is below 1: the 1 at index 0 is
\* not that value.
C12_Witness ==
    /\ Scheduled
    /\ alpha[0] = One
    /\ alpha[1] < One
    /\ s = 80

\* C14: when the model returned the zero tensor and the noise z was zero at
\* every step, the X that generate returns is the initial sample multiplied by
\* 1/sqrt(alpha[t]) for t = T-1 down to 1 (applied in that order, each
\* multiplication rounded), which is the initial sample times the product of
\* those factors up to one rounding unit per step.
RECURSIVE ScaledDown(_, _)
ScaledDown(x, tt) ==
    IF tt < 1 THEN x
    ELSE ScaledDown(Mul(Div(One, Sqrt(alpha[tt])), x), tt - 1)

RECURSIVE InvSqrtProduct(_)
InvSqrtProduct(tt) ==
    IF tt < 1 THEN One
    ELSE Mul(InvSqrtProduct(tt - 1), Div(One, Sqrt(alpha[tt])))

InitialSample == IF trace = <<>> THEN X_gen ELSE trace[1].X_in

AllZeroRun ==
    /\ pc = "returned"
    /\ \A k \in Entries : trace[k].X_noise = Zeros /\ trace[k].noise = Zeros

C14_ZeroPredictorClosedForm ==
    AllZeroRun =>
        \A i \in Samples, p \in Pixels :
            /\ X_gen[i][p] = ScaledDown(InitialSample[i][p], T - 1)
            /\ Abs(X_gen[i][p] - Mul(InvSqrtProduct(T - 1), InitialSample[i][p]))
                 <= 2 * Len(trace)

\* A run of at least two steps, one of them with z drawn, all of it zero, that
\* changed the sample.
C14_Witness ==
    /\ AllZeroRun
    /\ Len(trace) >= 2
    /\ trace[1].noise_fn = "normal"
    /\ X_gen # InitialSample
    /\ InitialSample # Zeros

\* C15: one run of generate calls the model exactly T times, once per reverse
\* step (4000 times for T = 4000, as the notebook's text above generate says).
\* The loop over range(T - 1, 0, -1) has T - 1 iterations and calls the model
\* once in each, so a run that has returned has made T - 1 calls.
C15_ModelCalledTTimes ==
    pc = "returned" => model_calls = T

\* C18 (as stated): no iteration of generate completes with a prediction whose
\* shape differs from X's, and no X is returned after one.
C18_ShapeMismatchAborts ==
    \A k \in Entries : Shape(trace[k].X_noise) = Shape(trace[k].X_in)

\* C16 (as stated): whenever T < 1 or max_beta is outside (0, 1) the schedule
\* computation fails and returns no schedule.
InvalidConfig == T < 1 \/ max_beta <= 0 \/ max_beta >= One

C16_InvalidConfigFails ==
    (Scheduled /\ InvalidConfig) =>
        /\ pc # "ready"
        /\ alpha = Empty /\ alpha_cumprod = Empty /\ beta = Empty
        /\ lin_alpha = Empty /\ lin_alpha_cumprod = Empty /\ lin_beta = Empty

\* C17 (as stated): a gather of a schedule value with a step index outside
\* [0, T] fails with an error and the call returns no result.
C17_OutOfRangeGatherFails ==
    (pc \in {"subtracted", "subtract_error"}
        /\ ~InBounds(alpha_cumprod, sub_args.time)) =>
        /\ pc = "subtract_error"
        /\ X_original = Empty

\* C19: constructing TimeEncoding with an odd embed_size fails at the
\* assertion, with no table built or stored; with an even embed_size the
\* construction succeeds and the table is stored.
Constructed ==
    pc \in {"encoder", "encoded", "down", "up", "model", "merge_error",
            "pop_error"}

C19_OddEmbedSizeFails ==
    /\ (pc = "assertion_error") =>
          /\ embed_size % 2 = 1
          /\ time_encodings = Empty /\ writes = Empty
    /\ Constructed =>
          /\ embed_size % 2 = 0
          /\ time_encodings # Empty
    /\ (embed_size % 2 = 1) => pc = "assertion_error"
    /\ (embed_size > 0 /\ embed_size % 2 = 0) => Constructed

C19_Witness ==
    /\ pc = "assertion_error"
    /\ embed_size = 3
    /\ time_encodings = Empty

\* C20: for even embed_size the table has T + 1 rows and embed_size columns,
\* every cell was assigned exactly once, column 2k holds sin(p / 10000^(2k /
\* embed_size)) and column 2k + 1 the cosine of the same angle for row p, and
\* a lookup returns for each given step t the table's row t.
EncodingCell(p, c, E) ==
    IF c % 2 = 0 THEN Coarse(FineSin(Angle(p, c, E)))
    ELSE Coarse(FineCos(Angle(p, c - 1, E)))

C20_TableShapeAndLookup ==
    Constructed =>
        /\ DOMAIN time_encodings = 0..T
        /\ \A r \in 0..T :
              /\ DOMAIN time_encodings[r] = 0..(embed_size - 1)
              /\ \A c \in 0..(embed_size - 1) :
                    /\ writes[r][c] = 1
                    /\ time_encodings[r][c] = EncodingCell(r, c, embed_size)
        /\ (pc = "encoded") =>
              /\ DOMAIN te_outputs = Samples
              /\ \A k \in Samples : te_outputs[k] = time_encodings[te_inputs[k]]

\* A lookup of two different steps in a table of at least four columns.
C20_Witness ==
    /\ pc = "encoded"
    /\ embed_size >= 4
    /\ T >= 2
    /\ te_inputs[0] = 2 /\ te_inputs[1] = 1
    /\ te_outputs[0] # te_outputs[1]
    /\ te_outputs[0][2] # 0

\* C13: in the cosine schedule for the default parameters (T = 4000,
\* s = 0.008, max_beta = 0.999) alpha[0] = 1, and at every index t in 1..T
\* alpha[t] < 1 and alpha_cumprod[t] < alpha_cumprod[t-1].
C13_DefaultStrictlyDecreasing ==
    /\ entry.t = 0 => entry.alpha = Fine /\ entry.alpha_cumprod = Fine
    /\ entry.t >= 1 =>
          /\ entry.alpha < Fine
          /\ entry.alpha_cumprod < entry.alpha_cumprod_before

\* The last entry, index 4000, reached with every entry before it computed.
C13_Witness ==
    /\ pc = "ready"
    /\ entry.t = DefaultT
    /\ T = DefaultT /\ s = DefaultS /\ max_beta = DefaultMaxBeta
    /\ entry.alpha = Fine - ToFine(max_beta)

\* C21: row 0 of the time-encoding table is 0, 1, 0, 1, ...: 0 in every even
\* column and 1 in every odd column, for every even embed_size.
C21_RowZeroPattern ==
    Constructed =>
        \A c \in 0..(embed_size - 1) :
            time_encodings[0][c] = (IF c % 2 = 0 THEN 0 ELSE One)

\* A table of six columns whose row 1 is not that pattern.
C21_Witness ==
    /\ Constructed
    /\ embed_size = 6
    /\ time_encodings[0] = [c \in 0..5 |-> IF c % 2 = 0 THEN 0 ELSE One]
    /\ time_encodings[1][0] > 0
    /\ time_encodings[1][1] < One

\* C22: once computed, the schedule arrays are never modified, and once
\* constructed, the time-encoding table is never modified: no step of
\* prepare_batch, subtract_noise, TimeEncoding.call or generate changes them.
C22_ArraysImmutable ==
    [][ /\ Scheduled =>
              /\ alpha' = alpha /\ alpha_cumprod' = alpha_cumprod /\ beta' = beta
              /\ lin_alpha' = lin_alpha
              /\ lin_alpha_cumprod' = lin_alpha_cumprod
              /\ lin_beta' = lin_beta
        /\ Constructed => time_encodings' = time_encodings ]_vars

\* A batch went through prepare_batch and subtract_noise with the schedule
\* in place.
C22_Witness ==
    /\ pc = "checked"
    /\ X_original # Empty
    /\ Size(alpha_cumprod) = T + 1
    /\ alpha_cumprod[T] < One

\* C24: the loop's state between two steps is X and the position in the range
\* of t alone: resuming after any number k of completed steps from the X
\* saved then, with the predictions and noise draws the run had from there
\* on, ends in the X that the uninterrupted run returned.
RECURSIVE Resume(_, _)
Resume(Xsaved, k) ==
    IF k >= Len(trace) THEN Xsaved
    ELSE Resume(reverse_update(Xsaved, TimeRange[k + 1],
                               trace[k + 1].X_noise, trace[k + 1].noise), k + 1)

SavedAfter(k) == IF k = 0 THEN InitialSample ELSE trace[k].X_out

C24_ResumeEqualsUninterrupted ==
    (pc = "returned") =>
        \A k \in 0..Len(trace) : Resume(SavedAfter(k), k) = X_gen

\* A run of two steps with different predictions, neither of them zero.
C24_Witness ==
    /\ pc = "returned"
    /\ Len(trace) = 2
    /\ trace[1].X_noise # trace[2].X_noise
    /\ trace[1].X_noise # Zeros /\ trace[2].X_noise # Zeros
    /\ trace[1].noise # Zeros

\* C25 (as stated): under either policy, at every step t in 1..T-1 that the
\* reverse sampler visits, alpha[t] > 0 and alpha_cumprod[t] < 1, so that
\* neither divisor of the update is zero.
DivisorsNonzero(a, acp) ==
    \A t0 \in 1..(T - 1) :
        /\ a[t0] > 0 /\ acp[t0] < One
        /\ Sqrt(a[t0]) # 0 /\ Sqrt(One - acp[t0]) # 0

C25_DivisorsNonzero ==
    Scheduled =>
        /\ DivisorsNonzero(alpha, alpha_cumprod)
        /\ DivisorsNonzero(lin_alpha, lin_alpha_cumprod)

\* C26: generate reads the schedule only at indices 1..T-1, each within the
\* arrays: never at index 0, never at index T, and no read fails.
C26_ReadsOnlyInnerIndices ==
    /\ pc # "index_error"
    /\ \A k \in Entries :
          /\ trace[k].t >= 1 /\ trace[k].t <= T - 1
          /\ trace[k].t \in DOMAIN alpha \cap DOMAIN beta \cap DOMAIN alpha_cumprod
    /\ (pc \in {"loop", "returned"}) => (t = 0 \/ t \in 1..(T - 1))

\* A complete run for T = 3, which read at 2 and at 1, where T is an index of
\* the arrays that it did not read.
C26_Witness ==
    /\ pc = "returned"
    /\ T = 3
    /\ {trace[k].t : k \in Entries} = {1, 2}
    /\ T \in DOMAIN alpha

\* C27: in each step the model is called once, on the X that entered the step
\* and a time vector of batch_size entries all equal to the step's t, and the
\* update of that step reads alpha, beta and alpha_cumprod at the same t.
C27_ModelCallMatchesStep ==
    /\ (pc \in {"loop", "returned"}) => model_calls = Len(trace)
    /\ \A k \in Entries :
          LET e == trace[k]
          IN  /\ e.model_X_noisy = e.X_in
              /\ DOMAIN e.model_time = Samples
              /\ Size(e.model_time) = batch_size
              /\ \A i \in Samples : e.model_time[i] = e.t
              /\ e.t = TimeRange[k]
              /\ e.X_out = reverse_update(e.X_in, e.model_time[0], e.X_noise, e.noise)

\* The second step of a run, called with t = 1 after a first with t = 2.
C27_Witness ==
    /\ Len(trace) = 2
    /\ model_calls = 2
    /\ trace[2].model_time = [i \in Samples |-> 1]
    /\ trace[1].model_time = [i \in Samples |-> 2]
    /\ trace[2].model_X_noisy = trace[1].X_out

\* C23: two calls of generate whose steps interleave share no mutable state:
\* whatever the interleaving, a call that has returned has returned the X it
\* returns when it runs alone after its own tf.random.set_seed.
C23_RunsIndependent ==
    \A r \in Runs :
        runs[r].pc = "returned" => runs[r].X_gen = GenerateAlone(Seeds[r])

\* C28: build_diffusion_model never fails on a shape, the two operands of
\* every add and of every concatenate have the same height and width, and
\* the output of the model it returns has the 28 x 28 x 1 of X_noisy.
C28_OutputShapeIsInputShape ==
    /\ pc # "merge_error"
    /\ \A k \in 1..Len(merges) :
          merges[k].a.h = merges[k].b.h /\ merges[k].a.w = merges[k].b.w
    /\ pc = "model" =>
          /\ model_outputs.h = 28 /\ model_outputs.w = 28
          /\ model_outputs.c = 1
          /\ Z.h = 32 /\ Z.w = 32

\* The model is returned after three adds on the way down and three adds and
\* three concatenates on the way up, between 4 x 4 and 32 x 32.
C28_Witness ==
    /\ pc = "model"
    /\ Len(merges) = 9
    /\ model_outputs.h = 28
    /\ \E k \in 1..Len(merges) : merges[k].a.h = 4
    /\ \E k \in 1..Len(merges) :
          merges[k].op = "concatenate" /\ merges[k].a.h = 32

\* C29: cross_skips is a stack.  The down path appends three tensors, the up
\* path pops three, no pop finds the list empty, the list is empty when the
\* model is returned, and the k-th pop returns what the (4 - k)-th down block
\* appended.
C29_CrossSkipsLifo ==
    /\ pc # "pop_error"
    /\ Len(pushed) <= 3
    /\ Len(popped) <= Len(pushed)
    /\ pc \in {"up", "model"} => Len(pushed) = 3
    /\ pc = "model" => Len(popped) = 3 /\ cross_skips = <<>>
    /\ \A k \in 1..Len(popped) :
          /\ popped[k] = pushed[4 - k]
          /\ popped[k].id = <<"down", 4 - k, 6>>
    /\ pc \in {"down", "up", "model"} =>
          cross_skips = SubSeq(pushed, 1, Len(pushed) - Len(popped))

\* The model is returned with all three pops done, the first of them of the
\* third down block's tensor.
C29_Witness ==
    /\ pc = "model"
    /\ Len(popped) = 3
    /\ popped[1].id = <<"down", 3, 6>>
    /\ popped[3].h = 32

====
